---- MODULE Spec2Model ----
(***************************************************************************)
(* Unspoken-Pain Finder (src/pain_finder.py): a Streamlit script over two  *)
(* SQLite tables.  Every browser session runs the script top to bottom on  *)
(* each interaction; the tables `users` and `ideas` are shared by all      *)
(* sessions, st.session_state is private to one session.                   *)
(*                                                                         *)
(* A script run of a logged-in session first reads the user's plan and     *)
(* idea count (lines 132-152) and only later, inside the pressed button's  *)
(* handler, writes to the store (lines 184, 234).  The read and the write  *)
(* are separate statements on the shared store, so runs of different       *)
(* sessions interleave between them; runs of one session are sequential.   *)
(***************************************************************************)
EXTENDS Integers, Sequences, FiniteSets, Bags, TLC

VARIABLES
    users,          \* table users: set of rows [username, password, plan]
    ideas,          \* table ideas: bag of rows [username, input, output]
                    \*   (id and timestamp are assigned by the store and
                    \*    read only by the history tab's display)
    session_state,  \* session_state[s]: st.session_state['logged_in_user']
    pc,             \* pc[s]: where session s's current script run stands
    run,            \* run[s]: the locals of session s's current script run
    last_msg,       \* the latest st.* message a handler issued, and the
                    \*   session whose script run issued it
    reg_password    \* history: the password each username was registered with

vars == <<users, ideas, session_state, pc, run, last_msg, reg_password>>

-----------------------------------------------------------------------------
(* Bounds and input domains *)

\* At most MaxIdeas rows are ever saved in the table ideas.
MaxIdeas == 6

Sessions == {"s1", "s2"}

\* Text typed into the username fields; "" is the empty text field.
Usernames == {"", "alice", "bob"}

Passwords == {"pw1", "pw2"}

\* Text typed into the idea-seed text area, as sequences of characters:
\* empty, a single space, a single letter.
Inputs == {<<>>, <<" ">>, <<"X">>}

\* The texts typed by concurrent sessions: the empty field and one seed.
\* (What a seed says plays no part in how script runs interleave.)
SeedTexts == {<<>>, <<"X">>}

\* response.text of a successful collaborator call (opaque text)
ResponseText == "1. a 2. b 3. c"

None == "<None>"

MAX_FREE_COUNT == 5

-----------------------------------------------------------------------------
(* Python truthiness *)

\* bool(x) for an Optional[str]: None and "" are falsy
Truthy(x) == x /= None /\ x /= ""

\* bool(text) for the text area's str: only the empty string is falsy
TruthyText(t) == Len(t) > 0

-----------------------------------------------------------------------------
(* Store functions, lines 68-121 *)

\* hashlib.sha256(password.encode()).hexdigest(), tabulated on Passwords
make_hashes(password) ==
    CASE password = "pw1" ->
           "c592df4a86933b92addc9842402ddf198c638ea9be58916ee6e3734e1e3152f8"
      [] password = "pw2" ->
           "93915a0a4bf8f634cb1856494dd4304472ad46b9827f541f76b6761c49cc55b0"
      [] password = "" ->
           "e3b0c44298fc1c149afbf4c8996fb92427ae41e4649b934ca495991b7852b855"

check_hashes_raw(password, hashed_text) == password = hashed_text

check_hashes(password, hashed_text) == make_hashes(password) = hashed_text

\* rows of table `tbl` whose username column equals `username`
RowsOf(tbl, username) == {r \in tbl : r.username = username}

\* INSERT OR REPLACE instead of INSERT: an existing row is overwritten
add_user_replace(tbl, username, password) ==
    [ok |-> TRUE,
     users |-> (tbl \ RowsOf(tbl, username)) \cup
               {[username |-> username, password |-> make_hashes(password),
                 plan |-> "free"]}]

\* add_user: INSERT INTO users; username is the PRIMARY KEY, so an existing
\* username raises sqlite3.IntegrityError (ok = FALSE) and inserts nothing.
add_user(tbl, username, password) ==
    IF RowsOf(tbl, username) /= {}
    THEN [ok |-> FALSE, users |-> tbl]
    ELSE [ok |-> TRUE,
          users |-> tbl \cup
               {[username |-> username, password |-> make_hashes(password),
                 plan |-> "free"]}]

\* returns the typed username when the lookup misses
login_user_nolookup(tbl, username, password) ==
    IF RowsOf(tbl, username) = {}
    THEN username
    ELSE LET user_record == CHOOSE r \in RowsOf(tbl, username) : TRUE
         IN  IF check_hashes(password, user_record.password)
             THEN user_record.username
             ELSE None

\* login_user: fetchone() of the rows with that username, then the hash check
login_user(tbl, username, password) ==
    IF RowsOf(tbl, username) = {}
    THEN None
    ELSE LET user_record == CHOOSE r \in RowsOf(tbl, username) : TRUE
         IN  IF check_hashes(password, user_record.password)
             THEN user_record.username
             ELSE None

\* save_idea: INSERT INTO ideas (username, input, output)
save_idea(tbl, username, user_input, ai_output) ==
    tbl (+) SetToBag({[username |-> username, input |-> user_input,
                       output |-> ai_output]})

\* count_user_ideas: SELECT COUNT(*) FROM ideas WHERE username = ?
count_user_ideas(tbl, username) ==
    BagCardinality([r \in {x \in BagToSet(tbl) : x.username = username}
                      |-> tbl[r]])

\* get_user_plan: the row's plan, 'free' when there is no row
get_user_plan(tbl, username) ==
    IF RowsOf(tbl, username) = {}
    THEN "free"
    ELSE (CHOOSE r \in RowsOf(tbl, username) : TRUE).plan

\* flips the plan instead of setting it
upgrade_user_plan_toggle(tbl, username) ==
    {IF r.username = username
     THEN [r EXCEPT !.plan = IF r.plan = "pro" THEN "free" ELSE "pro"]
     ELSE r : r \in tbl}

\* upgrade_user_plan: UPDATE users SET plan = "pro" WHERE username = ?
upgrade_user_plan(tbl, username) ==
    {IF r.username = username THEN [r EXCEPT !.plan = "pro"] ELSE r
       : r \in tbl}

-----------------------------------------------------------------------------
(* Tab 1 quota check, lines 144-152 *)

\* `>` instead of `>=`
can_save_offbyone(user_plan, saved_count) ==
    IF user_plan = "free"
    THEN IF saved_count > MAX_FREE_COUNT THEN FALSE ELSE TRUE
    ELSE TRUE

\* the limit applied whatever the plan
can_save_noplan(user_plan, saved_count) ==
    IF saved_count >= MAX_FREE_COUNT THEN FALSE ELSE TRUE

can_save(user_plan, saved_count) ==
    IF user_plan = "free"
    THEN IF saved_count >= MAX_FREE_COUNT THEN FALSE ELSE TRUE
    ELSE TRUE

-----------------------------------------------------------------------------
(* Script runs *)

Msg(s, text) == [session |-> s, text |-> text]

NoRun == [current_user |-> None, can_save |-> FALSE, user_input |-> <<>>]

\* runs in flight that will save when the collaborator returns
Saving == {s \in Sessions : pc[s] = "generating" /\ run[s].can_save}

Init ==
    /\ users = {}
    /\ ideas = EmptyBag
    /\ session_state = [s \in Sessions |-> None]
    /\ pc = [s \in Sessions |-> "idle"]
    /\ run = [s \in Sessions |-> NoRun]
    /\ last_msg = Msg("s1", "none")
    /\ reg_password = [u \in Usernames |-> None]

\* Lines 251-257: the login button of a logged-out session.
Login(s, username, password) ==
    /\ pc[s] = "idle"
    /\ ~Truthy(session_state[s])
    /\ LET user == login_user(users, username, password)
       IN  IF Truthy(user)
           THEN /\ session_state' = [session_state EXCEPT ![s] = user]
                /\ last_msg' = Msg(s, "login_ok")
           ELSE /\ session_state' = session_state
                /\ last_msg' = Msg(s, "login_error")
    /\ UNCHANGED <<users, ideas, pc, run, reg_password>>

\* the registration handler also logs the new user in
RegisterAndLogin(s, new_user, new_password) ==
    /\ pc[s] = "idle"
    /\ ~Truthy(session_state[s])
    /\ LET res == add_user(users, new_user, new_password)
       IN  /\ users' = res.users
           /\ last_msg' = Msg(s, IF res.ok THEN "register_ok" ELSE "register_dup")
           /\ session_state' = IF res.ok
                               THEN [session_state EXCEPT ![s] = new_user]
                               ELSE session_state
           /\ reg_password' = IF res.ok
                              THEN [reg_password EXCEPT ![new_user] = new_password]
                              ELSE reg_password
    /\ UNCHANGED <<ideas, pc, run>>

\* Lines 259-269: the registration button of a logged-out session.
Register(s, new_user, new_password) ==
    /\ pc[s] = "idle"
    /\ ~Truthy(session_state[s])
    /\ LET res == add_user(users, new_user, new_password)
       IN  /\ users' = res.users
           /\ last_msg' = Msg(s, IF res.ok THEN "register_ok" ELSE "register_dup")
           /\ reg_password' = IF res.ok
                              THEN [reg_password EXCEPT ![new_user] = new_password]
                              ELSE reg_password
    /\ UNCHANGED <<ideas, session_state, pc, run>>

\* Line 242: the logout button pops 'logged_in_user'; lines 127-128 of the
\* rerun set it to None.
Logout(s) ==
    /\ pc[s] = "idle"
    /\ Truthy(session_state[s])
    /\ session_state' = [session_state EXCEPT ![s] = None]
    /\ last_msg' = Msg(s, "none")
    /\ UNCHANGED <<users, ideas, pc, run, reg_password>>

\* Lines 130-165, 193-194: the run started by the generate button.  It reads
\* plan and count, computes can_save, and either starts the collaborator call
\* (truthy text) or warns.
GenerateStart(s, user_input) ==
    /\ pc[s] = "idle"
    /\ Truthy(session_state[s])
    /\ LET current_user == session_state[s]
           user_plan == get_user_plan(users, current_user)
           saved_count == count_user_ideas(ideas, current_user)
           cs == can_save(user_plan, saved_count)
       IN  IF TruthyText(user_input)
           THEN /\ cs => BagCardinality(ideas) + Cardinality(Saving) < MaxIdeas
                /\ pc' = [pc EXCEPT ![s] = "generating"]
                /\ run' = [run EXCEPT ![s] =
                             [current_user |-> current_user, can_save |-> cs,
                              user_input |-> user_input]]
                /\ last_msg' = Msg(s, "none")
           ELSE /\ last_msg' = Msg(s, "empty_warning")
                /\ UNCHANGED <<pc, run>>
    /\ UNCHANGED <<users, ideas, session_state, reg_password>>

\* the result is saved whatever can_save says
GenerateSucceedAlways(s) ==
    /\ pc[s] = "generating"
    /\ ideas' = save_idea(ideas, run[s].current_user, run[s].user_input,
                          ResponseText)
    /\ last_msg' = Msg(s, "saved")
    /\ pc' = [pc EXCEPT ![s] = "idle"]
    /\ run' = [run EXCEPT ![s] = NoRun]
    /\ UNCHANGED <<users, session_state, reg_password>>

\* Lines 175-188: generate_content returns; the result is shown and, if
\* can_save, saved.
GenerateSucceed(s) ==
    /\ pc[s] = "generating"
    /\ IF run[s].can_save
       THEN /\ ideas' = save_idea(ideas, run[s].current_user,
                                  run[s].user_input, ResponseText)
            /\ last_msg' = Msg(s, "saved")
       ELSE /\ ideas' = ideas
            /\ last_msg' = Msg(s, "not_saved")
    /\ pc' = [pc EXCEPT ![s] = "idle"]
    /\ run' = [run EXCEPT ![s] = NoRun]
    /\ UNCHANGED <<users, session_state, reg_password>>

\* the input is saved before the collaborator is called
GenerateFailSaved(s) ==
    /\ pc[s] = "generating"
    /\ ideas' = IF run[s].can_save
                THEN save_idea(ideas, run[s].current_user, run[s].user_input, "")
                ELSE ideas
    /\ last_msg' = Msg(s, "ai_error")
    /\ pc' = [pc EXCEPT ![s] = "idle"]
    /\ run' = [run EXCEPT ![s] = NoRun]
    /\ UNCHANGED <<users, session_state, reg_password>>

\* Lines 174-178, 191-192: generate_content raises; the error is shown.
GenerateFail(s) ==
    /\ pc[s] = "generating"
    /\ last_msg' = Msg(s, "ai_error")
    /\ pc' = [pc EXCEPT ![s] = "idle"]
    /\ run' = [run EXCEPT ![s] = NoRun]
    /\ UNCHANGED <<users, ideas, session_state, reg_password>>

\* Lines 130-133, 225, 233: the run started by the upgrade button, which is
\* drawn only when the plan read by this run is 'free'.
UpgradeStart(s) ==
    /\ pc[s] = "idle"
    /\ Truthy(session_state[s])
    /\ get_user_plan(users, session_state[s]) = "free"
    /\ pc' = [pc EXCEPT ![s] = "upgrading"]
    /\ run' = [run EXCEPT ![s] = [NoRun EXCEPT !.current_user = session_state[s]]]
    /\ last_msg' = Msg(s, "none")
    /\ UNCHANGED <<users, ideas, session_state, reg_password>>

\* Lines 234-236: upgrade_user_plan(current_user)
UpgradeFinish(s) ==
    /\ pc[s] = "upgrading"
    /\ users' = upgrade_user_plan(users, run[s].current_user)
    /\ last_msg' = Msg(s, "upgraded")
    /\ pc' = [pc EXCEPT ![s] = "idle"]
    /\ run' = [run EXCEPT ![s] = NoRun]
    /\ UNCHANGED <<ideas, session_state, reg_password>>

\* One interaction, or one step of a script run, of session s, the text
\* area holding one of `texts`.
Step(s, texts) ==
    \/ \E u \in Usernames, p \in Passwords : Login(s, u, p)
    \/ \E u \in Usernames, p \in Passwords : Register(s, u, p)
    \/ Logout(s)
    \/ \E t \in texts : GenerateStart(s, t)
    \/ GenerateSucceed(s)
    \/ GenerateFail(s)
    \/ UpgradeStart(s)
    \/ UpgradeFinish(s)

\* Any number of browser sessions against the same store.
Next == \E s \in Sessions : Step(s, SeedTexts)

Spec == Init /\ [][Next]_vars

\* The reference deployment: one active session.
NextSingle == \E s \in {"s1"} : Step(s, Inputs)

SpecSingle == Init /\ [][NextSingle]_vars

-----------------------------------------------------------------------------
(* Reading the state *)

Registered(u) == RowsOf(users, u) /= {}

\* session s's script run has just computed can_save and called the collaborator
QuotaChecked(s) == pc[s] = "idle" /\ pc'[s] = "generating"

\* the collaborator call of session s has just returned a result
Returned(s) ==
    /\ pc[s] = "generating" /\ pc'[s] = "idle"
    /\ last_msg' \in {Msg(s, "saved"), Msg(s, "not_saved")}

\* the collaborator call of session s has just failed
Failed(s) ==
    /\ pc[s] = "generating" /\ pc'[s] = "idle"
    /\ last_msg' = Msg(s, "ai_error")

\* a handler of session s has just issued the message `text`
Issued(s, text) == last_msg' = Msg(s, text)

-----------------------------------------------------------------------------
(* C1 *)

\* C1: the quota check of a generation run computes
\* can_save = (plan = pro) \/ (count < 5); when the collaborator returns, the
\* (input, output) pair is saved iff can_save: the user's count grows by
\* exactly 1 if can_save and by 0 otherwise, and no other user's count changes.
C1_SavedIffCanSave ==
    [][\A s \in Sessions :
         /\ QuotaChecked(s) =>
              run'[s].can_save =
                 (\/ get_user_plan(users, session_state[s]) = "pro"
                  \/ count_user_ideas(ideas, session_state[s]) < 5)
         /\ Returned(s) =>
              LET u == run[s].current_user
                  row == [username |-> u, input |-> run[s].user_input,
                          output |-> ResponseText]
                  n == IF run[s].can_save THEN 1 ELSE 0
              IN  /\ CopiesIn(row, ideas') = CopiesIn(row, ideas) + n
                  /\ BagCardinality(ideas') = BagCardinality(ideas) + n
                  /\ \A v \in Usernames :
                       count_user_ideas(ideas', v) =
                         count_user_ideas(ideas, v) + (IF v = u THEN n ELSE 0)
                  /\ (last_msg'.text = "saved") <=> run[s].can_save
      ]_vars

\* a free user's fifth idea has just been saved
C1_Witness ==
    /\ last_msg.text = "saved"
    /\ Truthy(session_state[last_msg.session])
    /\ get_user_plan(users, session_state[last_msg.session]) = "free"
    /\ count_user_ideas(ideas, session_state[last_msg.session]) = 5

-----------------------------------------------------------------------------
(* C2 *)

Whitespace == {" "}

\* the text is empty or consists only of whitespace
IsBlank(t) == \A i \in 1..Len(t) : t[i] \in Whitespace

\* C2: empty or whitespace-only seed text is rejected before any collaborator
\* call: no collaborator call is ever in flight for a blank text, and no saved
\* Idea row has a blank input.
C2_BlankRejected ==
    /\ \A s \in Sessions :
         pc[s] = "generating" => ~IsBlank(run[s].user_input)
    /\ \A r \in BagToSet(ideas) : ~IsBlank(r.input)

-----------------------------------------------------------------------------
(* C3 *)

\* C3 as stated: the session starts LoggedOut; a successful register or a
\* successful login leaves it LoggedIn; a failed login or registration leaves
\* it LoggedOut; generation and upgrade run only while LoggedIn.
C3_RegisterLogsIn ==
    /\ last_msg.text \in {"register_ok", "login_ok"} =>
         session_state[last_msg.session] /= None
    /\ last_msg.text \in {"register_dup", "login_error"} =>
         session_state[last_msg.session] = None
    /\ \A s \in Sessions : pc[s] /= "idle" => Truthy(session_state[s])

\* C3 amended: every session starts LoggedOut; the only transitions are
\* LoggedOut -> LoggedIn(u) by a login for which login_user returns the
\* non-empty registered username u, and LoggedIn -> LoggedOut by logout;
\* a registration, successful or not, and a failed login leave the session
\* LoggedOut; generation and upgrade run only while LoggedIn.
C3_SessionMachine ==
    /\ \A s \in Sessions : session_state[s] = None
    /\ [][\A s \in Sessions :
            /\ session_state'[s] /= session_state[s] =>
                 \/ /\ session_state[s] = None
                    /\ Issued(s, "login_ok")
                    /\ Truthy(session_state'[s])
                    /\ \E p \in Passwords :
                         login_user(users, session_state'[s], p) = session_state'[s]
                 \/ /\ Truthy(session_state[s])
                    /\ pc[s] = "idle"
                    /\ session_state'[s] = None
                    /\ Issued(s, "none")
            /\ Issued(s, "login_ok") =>
                 Truthy(session_state'[s]) /\ Registered(session_state'[s])
            /\ (Issued(s, "register_ok") \/ Issued(s, "register_dup")
                  \/ Issued(s, "login_error")) =>
                 session_state[s] = None /\ session_state'[s] = None
            /\ pc'[s] /= "idle" =>
                 /\ Truthy(session_state[s])
                 /\ session_state'[s] = session_state[s]
                 /\ run'[s].current_user = session_state[s]
      ]_vars

\* a session has just registered a new user and is still logged out
C3_Witness ==
    /\ last_msg.text = "register_ok"
    /\ session_state[last_msg.session] = None
    /\ \E s \in Sessions : Truthy(session_state[s])

-----------------------------------------------------------------------------
(* C4 *)

\* C4: when the collaborator call of a generation run fails, the Idea rows,
\* the User rows (so every count and plan) and every session's login are
\* unchanged, and the session is idle and still logged in as the same user,
\* so the generation can be tried again.
C4_FailPersistsNothing ==
    [][\A s \in Sessions :
         Failed(s) =>
           /\ ideas' = ideas
           /\ users' = users
           /\ session_state' = session_state
           /\ session_state'[s] = run[s].current_user
           /\ Truthy(session_state'[s])
           /\ pc'[s] = "idle"
      ]_vars

\* a collaborator call has just failed for a user who could have saved
C4_Witness ==
    /\ last_msg.text = "ai_error"
    /\ pc[last_msg.session] = "idle"
    /\ Truthy(session_state[last_msg.session])
    /\ count_user_ideas(ideas, session_state[last_msg.session]) = 2

-----------------------------------------------------------------------------
(* C5 *)

\* C5: a registration succeeds only for a username that had no row, and then
\* adds exactly the row (username, hash(password), free); a registration of a
\* username that has a row is answered "already exists" and changes no row:
\* password hash and plan (pro included) stay, and no username ever has two rows.
C5_DuplicateRegistration ==
    [][\A s \in Sessions :
         /\ Issued(s, "register_dup") => users' = users /\ ideas' = ideas
         /\ Issued(s, "register_ok") =>
              \E u \in Usernames, p \in Passwords :
                /\ ~Registered(u)
                /\ users' = users \cup
                     {[username |-> u, password |-> make_hashes(p),
                       plan |-> "free"]}
         /\ \A u \in Usernames : Cardinality(RowsOf(users', u)) <= 1
      ]_vars

\* a second registration of an upgraded user has just been refused
C5_Witness ==
    /\ last_msg.text = "register_dup"
    /\ \E r \in users : r.plan = "pro"
    /\ Cardinality(users) = 2

-----------------------------------------------------------------------------
(* C6 *)

\* C6: login_user(u, p) returns u iff u is registered and hash(p) is the hash
\* of the password u was registered with; otherwise, and so for every
\* unregistered u and every p, it returns None; a login never changes the
\* table users.
C6_Authenticate ==
    /\ [](\A u \in Usernames, p \in Passwords :
            /\ Registered(u) <=> reg_password[u] /= None
            /\ login_user(users, u, p) = u <=>
                 (/\ Registered(u)
                  /\ make_hashes(p) = make_hashes(reg_password[u]))
            /\ login_user(users, u, p) \in {u, None}
            /\ ~Registered(u) => login_user(users, u, p) = None)
    /\ [][\A s \in Sessions :
            (Issued(s, "login_ok") \/ Issued(s, "login_error")) =>
               users' = users
      ]_vars

\* a login has just succeeded while another registered user's password differs
C6_Witness ==
    /\ last_msg.text = "login_ok"
    /\ \E u, v \in Usernames :
         /\ session_state[last_msg.session] = u
         /\ Registered(v)
         /\ reg_password[v] /= reg_password[u]

-----------------------------------------------------------------------------
(* C7 *)

\* C7: once a user's plan is pro it is pro in every later state; every quota
\* check made for a pro user yields can_save = TRUE whatever the count; a call
\* of upgrade_user_plan, the first or a repeated one, leaves the user's plan
\* pro, changes nothing else in that row, no other user's row and no Idea row.
C7_UpgradeMonotone ==
    [][/\ \A u \in Usernames :
            (Registered(u) /\ get_user_plan(users, u) = "pro") =>
               (RowsOf(users', u) /= {} /\ get_user_plan(users', u) = "pro")
       /\ \A s \in Sessions :
            /\ (QuotaChecked(s) /\ get_user_plan(users, session_state[s]) = "pro")
                 => run'[s].can_save
            /\ (pc[s] = "upgrading" /\ pc'[s] = "idle") =>
                 LET u == run[s].current_user
                 IN  /\ get_user_plan(users', u) = "pro"
                     /\ RowsOf(users', u) =
                          {[r EXCEPT !.plan = "pro"] : r \in RowsOf(users, u)}
                     /\ \A v \in Usernames \ {u} :
                          RowsOf(users', v) = RowsOf(users, v)
                     /\ ideas' = ideas
      ]_vars

\* one session has just upgraded a user while another session's upgrade of
\* the same user is still to be carried out (the repeated call)
C7_Witness ==
    \E s \in Sessions :
        /\ pc[s] = "upgrading"
        /\ last_msg.text = "upgraded"
        /\ last_msg.session /= s
        /\ get_user_plan(users, run[s].current_user) = "pro"
        /\ count_user_ideas(ideas, run[s].current_user) >= 5

-----------------------------------------------------------------------------
(* C8 *)

\* C8: every Idea row's username is the username of a User row.
C8_ReferentialIntegrity ==
    \A r \in BagToSet(ideas) : Registered(r.username)

\* two different users own Idea rows
C8_Witness ==
    \E r1, r2 \in BagToSet(ideas) :
        r1.username /= r2.username /\ last_msg.text = "saved"

-----------------------------------------------------------------------------
(* C9 *)

-----------------------------------------------------------------------------
(* C10 *)

\* C10: with a single active session every free-plan user owns at most 5
\* Idea rows; only pro users own more.
C10_FreeAtMostFive ==
    \A u \in Usernames :
        (Registered(u) /\ get_user_plan(users, u) = "free") =>
            count_user_ideas(ideas, u) <= 5

\* a pro user owns 6 rows
C10_Witness ==
    \E u \in Usernames :
        /\ get_user_plan(users, u) = "pro"
        /\ count_user_ideas(ideas, u) = 6

====
